---- MODULE Spec2Model ----
(***************************************************************************)
(* Memory App Backend: the upload handler (main.py), the thread pool that  *)
(* runs AudioProcessor.process in the background (main.py), and the        *)
(* diarization + per-segment transcription pipeline (processor.py).        *)
(*                                                                         *)
(* A path is a sequence of name tokens, so that str.replace and            *)
(* str.endswith are modelled by what they do.  An audio file's data is a   *)
(* sequence of per-second samples (the word heard in that second, or       *)
(* silence " ") together with the speaker turns the diarization model      *)
(* finds in it.  Times are whole seconds.                                  *)
(***************************************************************************)
EXTENDS Integers, Sequences, FiniteSets, TLC

\* ------------------------------------------------------------- bounds ----
MaxUploads == 4        \* upload requests in the pool specification
Duration   == 2        \* length of an uploaded recording, in seconds
MaxTurns   == 2        \* most turns the diarization yields for a recording
MaxFaults  == 1        \* most calls that raise a transient error in one job

\* ---------------------------------------------------------- constants ----
max_workers == 3       \* ThreadPoolExecutor(max_workers=3)

Reqs == 1..MaxUploads
Jobs == 1..MaxUploads

VARIABLES
    upl,      \* upl[r]: the UploadFile of request r: filename and contents
    hpc,      \* hpc[r]: position of the upload_audio call serving request r
    resp,     \* resp[r]: HTTP status code answered to request r, 0 until then
    hjob,     \* hjob[r]: the future executor.submit returned to request r, 0 if none
    fs,       \* the file system: path -> [data, complete]
    queue,    \* the executor's work queue: job ids in submission order
    future,   \* future[j]: state of job j's Future
    jpath,    \* jpath[j]: the audio_path argument of job j's process call
    pc,       \* pc[j]: position of job j's process call
    loc,      \* loc[j]: the locals of job j's process call
    result,   \* result[j]: what process returned for job j
    log       \* what the print calls have written to the console so far

vars == <<upl, hpc, resp, hjob, fs, queue, future, jpath, pc, loc, result, log>>

\* ------------------------------------------------------ paths and data ----
UPLOAD_DIR == "uploads/"

\* str.endswith(".m4a")
EndsWithM4a(name) == Len(name) > 0 /\ name[Len(name)] = ".m4a"

\* UPLOAD_DIR / file.filename
FilePath(name) == <<UPLOAD_DIR>> \o name

\* str.replace(old, new): every occurrence is replaced
Replace(path, old, new) ==
    [k \in DOMAIN path |-> IF path[k] = old THEN new ELSE path[k]]

\* wav_path = str(audio_path).replace('.m4a', '.wav')
WavPath(audio_path) == Replace(audio_path, ".m4a", ".wav")

\* temp_path = wav_path.replace('.wav', f'_temp_{start}_{end}.wav')
TempPath(wav_path, start, end) ==
    Replace(wav_path, ".wav",
            "_temp_" \o ToString(start) \o "_" \o ToString(end) \o ".wav")

Exists(path) == path \in DOMAIN fs

WriteTo(files, path, file) ==
    [p \in DOMAIN files \cup {path} |-> IF p = path THEN file ELSE files[p]]

Remove(files, path) == [p \in DOMAIN files \ {path} |-> files[p]]

\* A file that has been opened for writing and not yet written.
Truncated == [data |-> [samples |-> <<>>, turns |-> <<>>], complete |-> FALSE]

Written(data) == [data |-> data, complete |-> TRUE]

\* ------------------------------------------------------------- inputs ----
Speakers == {"SPEAKER_00", "SPEAKER_01"}
Words    == {" ", "x"}

Samples == [1..Duration -> Words]

Turns == {t \in [speaker : Speakers, start : 0..Duration, end : 0..Duration] :
             t.start < t.end}

\* Annotation.itertracks yields the tracks in chronological order: by start,
\* then by end.
Chronological(s) ==
    \A k \in 1..(Len(s) - 1) :
        \/ s[k].start < s[k + 1].start
        \/ s[k].start = s[k + 1].start /\ s[k].end <= s[k + 1].end

TurnSeqs == {s \in UNION {[1..n -> Turns] : n \in 0..MaxTurns} : Chronological(s)}

Audio == [samples : Samples, turns : TurnSeqs]

NoAudio == [samples |-> <<>>, turns |-> <<>>]

Filenames == {<<"a", ".m4a">>, <<"a", ".txt">>}

\* ------------------------------------------------------ initial state ----
NoResult == [kind |-> "none", file |-> <<>>, segments |-> <<>>, num_speakers |-> 0]

NoLocals == [site |-> "", wav_path |-> <<>>, audio |-> NoAudio, segments |-> <<>>,
             i |-> 0, temp_path |-> <<>>, audio_data |-> <<>>, text |-> <<>>,
             labeled_segments |-> <<>>, faults |-> {}]

InitRest ==
    /\ resp = [r \in Reqs |-> 0]
    /\ hjob = [r \in Reqs |-> 0]
    /\ fs = <<>>
    /\ queue = <<>>
    /\ future = [j \in Jobs |-> "none"]
    /\ jpath = [j \in Jobs |-> <<>>]
    /\ pc = [j \in Jobs |-> "none"]
    /\ loc = [j \in Jobs |-> NoLocals]
    /\ result = [j \in Jobs |-> NoResult]
    /\ log = {}

\* One client uploads one recording: any filename, any contents.
Init ==
    /\ \E file \in [filename : Filenames, audio : Audio] : upl = [r \in Reqs |-> file]
    /\ hpc = [r \in Reqs |-> IF r = 1 THEN "new" ELSE "none"]
    /\ InitRest

\* print(...): the console keeps what was printed; a line is recorded by what
\* it reports and the file it names (<<>> when it names none).
Line(event, file) == [event |-> event, file |-> file]

Emit(lines) == log' = log \cup lines

\* ------------------------------------------- upload_audio (main.py) ----
\* The handlers are coroutines of one event loop: between two awaits a handler
\* runs without any other handler running.
LoopFree(r) == \A q \in Reqs \ {r} : hpc[q] \notin {"opened", "written", "submitted"}

JobVars == <<queue, future, jpath, pc, loc, result>>

\* lines 37-46: the extension check.  HTTPException(400) is raised inside the
\* try block, whose `except Exception` turns it into HTTPException(500).
Validate(r) ==
    /\ hpc[r] = "new"
    /\ LoopFree(r)
    /\ IF EndsWithM4a(upl[r].filename)
         THEN /\ hpc' = [hpc EXCEPT ![r] = "reading"]
              /\ resp' = resp
         ELSE /\ hpc' = [hpc EXCEPT ![r] = "responded"]
              /\ resp' = [resp EXCEPT ![r] = 500]
    /\ Emit(IF EndsWithM4a(upl[r].filename) THEN {} ELSE {Line("upload failed", <<>>)})
    /\ UNCHANGED <<upl, hjob, fs, JobVars>>

\* line 47: open(file_path, "wb") creates or truncates the file
OpenFile(r) ==
    /\ hpc[r] = "reading"
    /\ LoopFree(r)
    /\ fs' = WriteTo(fs, FilePath(upl[r].filename), Truncated)
    /\ hpc' = [hpc EXCEPT ![r] = "opened"]
    /\ UNCHANGED <<upl, resp, hjob, JobVars, log>>

\* line 48: f.write(contents) and the close at the end of the with block
WriteFile(r) ==
    /\ hpc[r] = "opened"
    /\ fs' = WriteTo(fs, FilePath(upl[r].filename), Written(upl[r].audio))
    /\ hpc' = [hpc EXCEPT ![r] = "written"]
    /\ Emit({Line("received", FilePath(upl[r].filename))})
    /\ UNCHANGED <<upl, resp, hjob, JobVars>>

NewJob == Cardinality({j \in Jobs : future[j] /= "none"}) + 1

\* Submit that waits for the job: process is run before submit returns.
SubmitAndWait(r) ==
    /\ hpc[r] = "written"
    /\ LET j == NewJob IN
         /\ future' = [future EXCEPT ![j] = "FINISHED"]
         /\ jpath' = [jpath EXCEPT ![j] = FilePath(upl[r].filename)]
         /\ result' = [result EXCEPT ![j] = [NoResult EXCEPT !.kind = "result"]]
         /\ pc' = [pc EXCEPT ![j] = "returned"]
         /\ hjob' = [hjob EXCEPT ![r] = j]
    /\ hpc' = [hpc EXCEPT ![r] = "submitted"]
    /\ Emit({Line("queued", <<>>)})
    /\ UNCHANGED <<upl, resp, fs, queue, loc>>

\* line 56: future = executor.submit(processor.process, str(file_path))
Submit(r) ==
    /\ hpc[r] = "written"
    /\ LET j == NewJob IN
         /\ future' = [future EXCEPT ![j] = "PENDING"]
         /\ jpath' = [jpath EXCEPT ![j] = FilePath(upl[r].filename)]
         /\ queue' = Append(queue, j)
         /\ hjob' = [hjob EXCEPT ![r] = j]
    /\ hpc' = [hpc EXCEPT ![r] = "submitted"]
    /\ Emit({Line("queued", <<>>)})
    /\ UNCHANGED <<upl, resp, fs, pc, loc, result>>

\* Respond with a handler that reports the outcome of the job when it knows it.
RespondWithOutcome(r) ==
    /\ hpc[r] = "submitted"
    /\ resp' = [resp EXCEPT ![r] = IF result[hjob[r]].kind = "exception" THEN 500
                                                                        ELSE 200]
    /\ hpc' = [hpc EXCEPT ![r] = "responded"]
    /\ UNCHANGED <<upl, hjob, fs, JobVars, log>>

\* lines 60-68: return JSONResponse(status_code=200, ...)
Respond(r) ==
    /\ hpc[r] = "submitted"
    /\ resp' = [resp EXCEPT ![r] = 200]
    /\ hpc' = [hpc EXCEPT ![r] = "responded"]
    /\ UNCHANGED <<upl, hjob, fs, JobVars, log>>

\* ----------------------------- executor: ThreadPoolExecutor (main.py) ----
Running == {j \in Jobs : future[j] = "RUNNING"}

\* WorkerStart without the limit on the number of threads.
WorkerStartUnbounded(j) ==
    /\ queue /= <<>>
    /\ j = Head(queue)
    /\ queue' = Tail(queue)
    /\ future' = [future EXCEPT ![j] = "RUNNING"]
    /\ pc' = [pc EXCEPT ![j] = "process"]
    /\ UNCHANGED <<upl, hpc, resp, hjob, fs, jpath, loc, result, log>>

\* WorkerStart taking any work item of the queue, not the oldest.
WorkerStartAny(j) ==
    /\ \E k \in DOMAIN queue : queue[k] = j
    /\ Cardinality(Running) < max_workers
    /\ queue' = SelectSeq(queue, LAMBDA x : x /= j)
    /\ future' = [future EXCEPT ![j] = "RUNNING"]
    /\ pc' = [pc EXCEPT ![j] = "process"]
    /\ UNCHANGED <<upl, hpc, resp, hjob, fs, jpath, loc, result, log>>

\* A free worker thread takes the oldest work item of the queue and runs it.
WorkerStart(j) ==
    /\ queue /= <<>>
    /\ j = Head(queue)
    /\ Cardinality(Running) < max_workers
    /\ queue' = Tail(queue)
    /\ future' = [future EXCEPT ![j] = "RUNNING"]
    /\ pc' = [pc EXCEPT ![j] = "process"]
    /\ UNCHANGED <<upl, hpc, resp, hjob, fs, jpath, loc, result, log>>

\* The work item ends: future.set_result(result) when process returned.
SetResult(j, value) ==
    /\ future' = [future EXCEPT ![j] = "FINISHED"]
    /\ result' = [result EXCEPT ![j] = value]
    /\ pc' = [pc EXCEPT ![j] = "returned"]

\* SetException with a worker that does not survive the exception: the
\* future never leaves RUNNING.
SetExceptionWorkerDies(j) ==
    /\ future' = future
    /\ result' = [result EXCEPT ![j] = [NoResult EXCEPT !.kind = "exception"]]
    /\ pc' = [pc EXCEPT ![j] = "raised"]

\* The work item ends: the worker catches what process raised and stores it,
\* future.set_exception(exc); the worker thread goes on to the next item.
SetException(j) ==
    /\ future' = [future EXCEPT ![j] = "FINISHED"]
    /\ result' = [result EXCEPT ![j] = [NoResult EXCEPT !.kind = "exception"]]
    /\ pc' = [pc EXCEPT ![j] = "raised"]

Handler ==
    \E r \in Reqs :
        \/ Validate(r)
        \/ OpenFile(r)
        \/ WriteFile(r)
        \/ Submit(r)
        \/ Respond(r)

\* ------------------------------------ AudioProcessor (processor.py) ----
\* What reading a file can give: nothing when the file is missing (the read
\* raises), its data when it is complete, and either of the two when another
\* writer has opened it and not finished writing it.
Read(path) ==
    IF ~Exists(path)
      THEN {[ok |-> FALSE, data |-> NoAudio]}
      ELSE IF fs[path].complete
             THEN {[ok |-> TRUE, data |-> fs[path].data]}
             ELSE {[ok |-> FALSE, data |-> NoAudio],
                   [ok |-> TRUE, data |-> fs[path].data]}

\* A call to the outside (ffmpeg, the disk, a model) may raise a transient
\* error; a job meets at most MaxFaults of them.
Faulty(j) == IF Cardinality(loc[j].faults) < MaxFaults THEN BOOLEAN ELSE {FALSE}

Fault(j, call) == loc[j].faults \cup {[call |-> call, i |-> loc[j].i]}

\* An exception leaves process: it reaches the worker, which stores it.
Propagate(j, locals) ==
    /\ loc' = [loc EXCEPT ![j] = locals]
    /\ SetException(j)

Goto(j, label, locals) ==
    /\ pc' = [pc EXCEPT ![j] = label]
    /\ loc' = [loc EXCEPT ![j] = locals]
    /\ UNCHANGED <<future, result>>

HandlerVars == <<upl, hpc, resp, hjob>>

\* convert_to_wav returns to diarize (line 43) or to transcribe_segment (line 65)
AfterConvert(site) == IF site = "diarize" THEN "pipeline" ELSE "from_wav"

\* ConvertToWav without the os.path.exists test: it converts at every call.
ConvertToWavAlways(j) ==
    /\ pc[j] \in {"process", "transcribe_segment"}
    /\ LET site == IF pc[j] = "process" THEN "diarize" ELSE "transcribe_segment"
           wav_path == WavPath(jpath[j])
           locals == [loc[j] EXCEPT !.site = site, !.wav_path = wav_path]
       IN  /\ Goto(j, "from_file", locals)
           /\ Emit((IF pc[j] = "process" THEN {Line("processing", jpath[j])} ELSE {})
                      \cup {Line("converting", jpath[j])})
    /\ UNCHANGED <<HandlerVars, fs, queue, jpath>>

\* convert_to_wav, lines 27-29, called from diarize (line 43, at the start of
\* process) and from transcribe_segment (line 65)
ConvertToWav(j) ==
    /\ pc[j] \in {"process", "transcribe_segment"}
    /\ LET site == IF pc[j] = "process" THEN "diarize" ELSE "transcribe_segment"
           wav_path == WavPath(jpath[j])
           locals == [loc[j] EXCEPT !.site = site, !.wav_path = wav_path]
       IN  /\ Goto(j, IF Exists(wav_path) THEN AfterConvert(site) ELSE "from_file",
                   locals)
           /\ Emit((IF pc[j] = "process" THEN {Line("processing", jpath[j])} ELSE {})
                      \cup (IF Exists(wav_path) THEN {}
                                                ELSE {Line("converting", jpath[j])}))
    /\ UNCHANGED <<HandlerVars, fs, queue, jpath>>

\* line 31: audio = AudioSegment.from_file(audio_path, format="m4a")
FromFile(j) ==
    /\ pc[j] = "from_file"
    /\ \E fault \in Faulty(j), read \in Read(jpath[j]) :
         IF fault
           THEN Propagate(j, [loc[j] EXCEPT !.faults = Fault(j, "from_file")])
           ELSE IF read.ok
                  THEN Goto(j, "export", [loc[j] EXCEPT !.audio = read.data])
                  ELSE Propagate(j, loc[j])
    /\ UNCHANGED <<HandlerVars, fs, queue, jpath, log>>

\* line 32: audio.export(wav_path, format="wav") opens the file for writing
ExportOpen(j) ==
    /\ pc[j] = "export"
    /\ \E fault \in Faulty(j) :
         IF fault
           THEN /\ Propagate(j, [loc[j] EXCEPT !.faults = Fault(j, "export")])
                /\ fs' = fs
           ELSE /\ Goto(j, "export_write", loc[j])
                /\ fs' = WriteTo(fs, loc[j].wav_path, Truncated)
    /\ UNCHANGED <<HandlerVars, queue, jpath, log>>

\* line 32, continued: the data is written and the file closed; line 35
ExportWrite(j) ==
    /\ pc[j] = "export_write"
    /\ \E fault \in Faulty(j) :
         IF fault
           THEN /\ Propagate(j, [loc[j] EXCEPT !.faults = Fault(j, "export_write")])
                /\ fs' = fs
                /\ log' = log
           ELSE /\ Goto(j, AfterConvert(loc[j].site), loc[j])
                /\ fs' = WriteTo(fs, loc[j].wav_path, Written(loc[j].audio))
                /\ Emit({Line("converted", loc[j].wav_path)})
    /\ UNCHANGED <<HandlerVars, queue, jpath>>

\* SegmentsOf with segments.insert(0, ...) for segments.append(...).
SegmentsOfReversed(turns) ==
    [k \in DOMAIN turns |->
        [speaker |-> turns[Len(turns) + 1 - k].speaker,
         start |-> turns[Len(turns) + 1 - k].start,
         end |-> turns[Len(turns) + 1 - k].end,
         duration |-> turns[Len(turns) + 1 - k].end - turns[Len(turns) + 1 - k].start]]

\* lines 49-56: one segment per track, in the order itertracks yields them
SegmentsOf(turns) ==
    [k \in DOMAIN turns |->
        [speaker |-> turns[k].speaker, start |-> turns[k].start,
         end |-> turns[k].end, duration |-> turns[k].end - turns[k].start]]

\* Diarize with a pipeline whose failure is swallowed: no segment is found.
DiarizeSwallows(j) ==
    /\ pc[j] = "pipeline"
    /\ \E fault \in Faulty(j), read \in Read(loc[j].wav_path) :
         IF fault
           THEN /\ Goto(j, "loop", [loc[j] EXCEPT !.faults = Fault(j, "pipeline"),
                                                  !.segments = <<>>,
                                                  !.i = 1])
                /\ Emit({Line("running diarization", loc[j].wav_path)})
           ELSE IF read.ok
                  THEN /\ Goto(j, "loop", [loc[j] EXCEPT
                                             !.segments = SegmentsOf(read.data.turns),
                                             !.i = 1])
                       /\ Emit({Line("running diarization", loc[j].wav_path),
                                 Line("found speakers", <<>>)})
                  ELSE /\ Propagate(j, loc[j])
                       /\ Emit({Line("running diarization", loc[j].wav_path)})
    /\ UNCHANGED <<HandlerVars, fs, queue, jpath>>

\* diarize, lines 47-59: diarization = self.diarization_pipeline(wav_path)
Diarize(j) ==
    /\ pc[j] = "pipeline"
    /\ \E fault \in Faulty(j), read \in Read(loc[j].wav_path) :
         IF fault
           THEN /\ Propagate(j, [loc[j] EXCEPT !.faults = Fault(j, "pipeline")])
                /\ Emit({Line("running diarization", loc[j].wav_path)})
           ELSE IF read.ok
                  THEN /\ Goto(j, "loop", [loc[j] EXCEPT
                                             !.segments = SegmentsOf(read.data.turns),
                                             !.i = 1])
                       /\ Emit({Line("running diarization", loc[j].wav_path),
                                 Line("found speakers", <<>>)})
                  ELSE /\ Propagate(j, loc[j])
                       /\ Emit({Line("running diarization", loc[j].wav_path)})
    /\ UNCHANGED <<HandlerVars, fs, queue, jpath>>

\* ResultOf with num_speakers = len(segments), the number of turns.
ResultOfCountsTurns(audio_path, segments, labeled_segments) ==
    [kind |-> "result",
     file |-> audio_path,
     segments |-> labeled_segments,
     num_speakers |-> Len(segments)]

\* process, lines 126-130
ResultOf(audio_path, segments, labeled_segments) ==
    [kind |-> "result",
     file |-> audio_path,
     segments |-> labeled_segments,
     num_speakers |-> Cardinality({segments[k].speaker : k \in DOMAIN segments})]

\* process, line 110: the next segment, or lines 126-140 after the last one
Loop(j) ==
    /\ pc[j] = "loop"
    /\ IF loc[j].i <= Len(loc[j].segments)
         THEN /\ Goto(j, "transcribe_segment", loc[j])
              /\ Emit({Line("transcribing", <<>>)})
         ELSE /\ SetResult(j, ResultOf(jpath[j], loc[j].segments,
                                       loc[j].labeled_segments))
              /\ loc' = loc
              /\ Emit({Line("results", <<>>)})
    /\ UNCHANGED <<HandlerVars, fs, queue, jpath>>

\* transcribe_segment, line 68: audio = AudioSegment.from_wav(wav_path)
FromWav(j) ==
    /\ pc[j] = "from_wav"
    /\ \E fault \in Faulty(j), read \in Read(loc[j].wav_path) :
         IF fault
           THEN Propagate(j, [loc[j] EXCEPT !.faults = Fault(j, "from_wav")])
           ELSE IF read.ok
                  THEN Goto(j, "export_temp", [loc[j] EXCEPT !.audio = read.data])
                  ELSE Propagate(j, loc[j])
    /\ UNCHANGED <<HandlerVars, fs, queue, jpath, log>>

Min(a, b) == IF a < b THEN a ELSE b

\* line 71: audio[int(start * 1000):int(end * 1000)], a slice in milliseconds
\* of samples that last one second each
Slice(samples, start, end) ==
    LET from == Min((start * 1000) \div 1000, Len(samples))
        to   == Min((end * 1000) \div 1000, Len(samples))
    IN  SubSeq(samples, from + 1, to)

Seg(j) == loc[j].segments[loc[j].i]

\* lines 74-75: temp_path, and segment.export(temp_path, format="wav") opens it
ExportTempOpen(j) ==
    /\ pc[j] = "export_temp"
    /\ LET temp_path == TempPath(loc[j].wav_path, Seg(j).start, Seg(j).end) IN
       \E fault \in Faulty(j) :
         IF fault
           THEN /\ Propagate(j, [loc[j] EXCEPT !.faults = Fault(j, "export_temp")])
                /\ fs' = fs
           ELSE /\ Goto(j, "export_temp_write", [loc[j] EXCEPT !.temp_path = temp_path])
                /\ fs' = WriteTo(fs, temp_path, Truncated)
    /\ UNCHANGED <<HandlerVars, queue, jpath, log>>

\* line 75, continued: the sub-clip is written and the file closed
ExportTempWrite(j) ==
    /\ pc[j] = "export_temp_write"
    /\ LET clip == [samples |-> Slice(loc[j].audio.samples, Seg(j).start, Seg(j).end),
                    turns |-> <<>>] IN
       \E fault \in Faulty(j) :
         IF fault
           THEN /\ Propagate(j, [loc[j] EXCEPT !.faults = Fault(j, "export_temp_write")])
                /\ fs' = fs
           ELSE /\ Goto(j, "record", loc[j])
                /\ fs' = WriteTo(fs, loc[j].temp_path, Written(clip))
    /\ UNCHANGED <<HandlerVars, queue, jpath, log>>

\* lines 79-80: with sr.AudioFile(temp_path) as source: recognizer.record(source)
Record(j) ==
    /\ pc[j] = "record"
    /\ \E read \in Read(loc[j].temp_path) :
         IF read.ok
           THEN Goto(j, "recognize", [loc[j] EXCEPT !.audio_data = read.data.samples])
           ELSE Goto(j, "except", loc[j])
    /\ UNCHANGED <<HandlerVars, fs, queue, jpath, log>>

\* The speech-to-text model writes down the words it hears, silences included.
Whisper(audio_data) == audio_data

\* line 82: text = self.recognizer.recognize_whisper(audio_data)
Recognize(j) ==
    /\ pc[j] = "recognize"
    /\ \E fault \in Faulty(j) :
         IF fault
           THEN Goto(j, "except", [loc[j] EXCEPT !.faults = Fault(j, "recognize")])
           ELSE Goto(j, "remove", [loc[j] EXCEPT !.text = Whisper(loc[j].audio_data)])
    /\ UNCHANGED <<HandlerVars, fs, queue, jpath, log>>

\* str.strip(): leading and trailing whitespace removed
RECURSIVE LStrip(_)
LStrip(text) ==
    IF text /= <<>> /\ Head(text) = " " THEN LStrip(Tail(text)) ELSE text

RECURSIVE RStrip(_)
RStrip(text) ==
    IF text /= <<>> /\ text[Len(text)] = " "
      THEN RStrip(SubSeq(text, 1, Len(text) - 1))
      ELSE text

Strip(text) == RStrip(LStrip(text))

\* process, lines 113-121: the segment, labeled with the text transcribe_segment
\* returned, is appended
Labeled(seg, text) ==
    [speaker |-> seg.speaker, start |-> seg.start, end |-> seg.end,
     duration |-> seg.duration, text |-> text]

\* AppendLabeled with labeled_segments.insert(0, ...) for append.
AppendLabeledFront(j, text) ==
    [loc[j] EXCEPT !.labeled_segments = <<Labeled(Seg(j), text)>> \o @,
                   !.i = @ + 1]

AppendLabeled(j, text) ==
    [loc[j] EXCEPT !.labeled_segments = Append(@, Labeled(Seg(j), text)),
                   !.i = @ + 1]

\* lines 85-87: os.remove(temp_path), which raises when the file is not there;
\* return text.strip()
RemoveTemp(j) ==
    /\ pc[j] = "remove"
    /\ IF Exists(loc[j].temp_path)
         THEN /\ Goto(j, "loop", AppendLabeled(j, Strip(loc[j].text)))
              /\ fs' = Remove(fs, loc[j].temp_path)
              /\ Emit({Line("text", <<>>)})
         ELSE /\ Goto(j, "except", loc[j])
              /\ fs' = fs
              /\ log' = log
    /\ UNCHANGED <<HandlerVars, queue, jpath>>

\* Except with a handler that cleans up and raises again.
ExceptReraise(j) ==
    /\ pc[j] = "except"
    /\ Propagate(j, loc[j])
    /\ fs' = IF Exists(loc[j].temp_path) THEN Remove(fs, loc[j].temp_path) ELSE fs
    /\ Emit({Line("segment transcription failed", <<>>)})
    /\ UNCHANGED <<HandlerVars, queue, jpath>>

\* lines 89-93: except Exception: remove temp_path if it exists; return ""
Except(j) ==
    /\ pc[j] = "except"
    /\ fs' = IF Exists(loc[j].temp_path) THEN Remove(fs, loc[j].temp_path) ELSE fs
    /\ Goto(j, "loop", AppendLabeled(j, <<>>))
    /\ Emit({Line("segment transcription failed", <<>>), Line("text", <<>>)})
    /\ UNCHANGED <<HandlerVars, queue, jpath>>

Process(j) ==
    \/ ConvertToWav(j)
    \/ FromFile(j)
    \/ ExportOpen(j)
    \/ ExportWrite(j)
    \/ Diarize(j)
    \/ Loop(j)
    \/ FromWav(j)
    \/ ExportTempOpen(j)
    \/ ExportTempWrite(j)
    \/ Record(j)
    \/ Recognize(j)
    \/ RemoveTemp(j)
    \/ Except(j)

Next ==
    \/ Handler
    \/ \E j \in Jobs : WorkerStart(j)
    \/ \E j \in Jobs : Process(j)

Spec == Init /\ [][Next]_vars

\* ------------- the race specification: the same filename uploaded twice ----
\* A recording with one turn, in which the speaker talks all along.
RaceAudio ==
    [samples |-> [k \in 1..Duration |-> "x"],
     turns |-> <<[speaker |-> "SPEAKER_00", start |-> 0, end |-> 1]>>]

\* Two clients upload a recording under the same filename, a.m4a; the two
\* requests and the two jobs interleave as the event loop and the pool allow.
InitRace ==
    /\ upl = [r \in Reqs |-> [filename |-> <<"a", ".m4a">>, audio |-> RaceAudio]]
    /\ hpc = [r \in Reqs |-> IF r <= 2 THEN "new" ELSE "none"]
    /\ InitRest

SpecRace == InitRace /\ [][Next]_vars

\* ------------------- the pool specification: process by its outcome ----
\* process, seen from the executor: it returns a result or it raises.
ProcessReturns(j) ==
    /\ pc[j] = "process"
    /\ SetResult(j, [NoResult EXCEPT !.kind = "result", !.file = jpath[j]])
    /\ Emit({Line("processing", jpath[j]), Line("results", <<>>)})
    /\ UNCHANGED <<upl, hpc, resp, hjob, fs, queue, jpath, loc>>

\* ProcessRaises with an executor that queues the failed work item again.
ProcessRaisesRetry(j) ==
    /\ pc[j] = "process"
    /\ future' = [future EXCEPT ![j] = "PENDING"]
    /\ queue' = Append(queue, j)
    /\ pc' = [pc EXCEPT ![j] = "none"]
    /\ Emit({Line("processing", jpath[j])})
    /\ UNCHANGED <<upl, hpc, resp, hjob, fs, result, jpath, loc>>

ProcessRaises(j) ==
    /\ pc[j] = "process"
    /\ SetException(j)
    /\ Emit({Line("processing", jpath[j])})
    /\ UNCHANGED <<upl, hpc, resp, hjob, fs, queue, jpath, loc>>

\* Clients upload MaxUploads recordings, with and without the .m4a extension.
PoolAudio == [samples |-> [k \in 1..Duration |-> "x"], turns |-> <<>>]

InitPool ==
    /\ upl \in [Reqs -> [filename : {<<"a", ".m4a">>, <<"a", ".txt">>},
                         audio : {PoolAudio}]]
    /\ hpc = [r \in Reqs |-> "new"]
    /\ InitRest

NextPool ==
    \/ Handler
    \/ \E j \in Jobs : WorkerStart(j)
    \/ \E j \in Jobs : ProcessReturns(j)
    \/ \E j \in Jobs : ProcessRaises(j)

SpecPool == InitPool /\ [][NextPool]_vars

\* The uploads are all accepted.
InitPoolFair ==
    /\ upl = [r \in Reqs |-> [filename |-> <<"a", ".m4a">>, audio |-> PoolAudio]]
    /\ hpc = [r \in Reqs |-> "new"]
    /\ InitRest

\* The worker threads are scheduled: a free worker takes the oldest work item,
\* and a call of process comes to its end.
SpecPoolFair ==
    /\ InitPoolFair
    /\ [][NextPool]_vars
    /\ WF_vars(\E j \in Jobs : WorkerStart(j))
    /\ \A j \in Jobs : WF_vars(ProcessReturns(j) \/ ProcessRaises(j))

\* ================================================ the pool's claims ====
\* C1: at most max_workers calls of process are executing at any time: a job
\* submitted while no worker is free starts only after a running job has
\* finished.
C1_BoundedConcurrency == Cardinality(Running) <= max_workers

\* max_workers jobs are running and one more is waiting in the queue.
C1_Witness == Cardinality(Running) = max_workers /\ queue /= <<>>

C9_FifoDispatch ==
    \A a, b \in Jobs :
        a < b /\ future[a] = "PENDING" => future[b] \in {"none", "PENDING"}

\* A later job has finished while an earlier one is still running.
C9_Witness ==
    \E a, b \in Jobs : a < b /\ future[a] = "RUNNING" /\ future[b] = "FINISHED"

\* C10: an exception of process ends only its own job, as failed: the worker
\* is free again, no other job and no queue entry changes, and the executor
\* goes on accepting submissions and starting queued jobs.
C10_FailureContained ==
    /\ [][\A j \in Jobs :
            pc[j] = "process" /\ pc'[j] = "raised"
              => /\ future'[j] = "FINISHED"
                 /\ result'[j].kind = "exception"
                 /\ Cardinality({k \in Jobs : future'[k] = "RUNNING"})
                      = Cardinality(Running) - 1
                 /\ queue' = queue
                 /\ \A k \in Jobs \ {j} :
                      future'[k] = future[k] /\ result'[k] = result[k]
                                             /\ pc'[k] = pc[k]]_vars
    /\ [](\A r \in Reqs : hpc[r] = "written" => ENABLED Submit(r))
    /\ [](queue /= <<>> /\ Cardinality(Running) < max_workers
            => ENABLED WorkerStart(Head(queue)))

\* One job has failed, and max_workers other jobs are running after it: one of
\* them on the worker the failed job had.
C10_Witness ==
    \E j \in Jobs :
        /\ result[j].kind = "exception"
        /\ Cardinality(Running) = max_workers
        /\ \E k \in Running : k > j

\* ============================================ the pipeline's claims ====
\* The recording job j processes: the one its upload wrote.
Uploaded(j) == upl[CHOOSE r \in Reqs : hjob[r] = j].audio

\* What transcribe_segment returns for a turn when nothing fails.
TextOf(j, turn) == Strip(Whisper(Slice(Uploaded(j).samples, turn.start, turn.end)))

\* C2: when the speech-to-text call of exactly one turn fails, and nothing
\* else does, the job is not aborted: process returns one segment per turn,
\* the failing turn's with the empty text and the others with the text they
\* have when no call fails.
C2_PartialFailureContained ==
    \A j \in Jobs : \A k \in 1..MaxTurns :
        loc[j].faults = {[call |-> "recognize", i |-> k]} =>
            /\ pc[j] /= "raised"
            /\ pc[j] = "returned" =>
                 LET turns == Uploaded(j).turns
                     segs  == result[j].segments
                 IN  /\ Len(segs) = Len(turns)
                     /\ segs[k].text = <<>>
                     /\ \A i \in DOMAIN turns \ {k} :
                          segs[i].text = TextOf(j, turns[i])

\* A job returned although the speech-to-text call of one of its two turns
\* failed; the other turn kept its words.
C2_Witness ==
    \E j \in Jobs : \E k \in 1..MaxTurns :
        /\ pc[j] = "returned"
        /\ loc[j].faults = {[call |-> "recognize", i |-> k]}
        /\ Len(result[j].segments) >= 2
        /\ \E i \in DOMAIN result[j].segments : result[j].segments[i].text /= <<>>

\* Job j is inside transcribe_segment, between the creation of the sub-clip
\* file and its removal.
UsingTemp(j) ==
    pc[j] \in {"export_temp_write", "record", "recognize", "remove", "except"}

\* C3: once a call of transcribe_segment that began writing the sub-clip has
\* ended, by returning or by raising, the temporary file is no longer on disk.
C3_TempAlwaysDeleted ==
    \A j \in Jobs :
        loc[j].temp_path /= <<>> /\ ~UsingTemp(j) => ~Exists(loc[j].temp_path)

\* C4: no error raised inside transcribe_segment leaves it: process never
\* ends with an exception that was raised during a transcribe_segment call.
C4_TranscribeNeverRaises ==
    \A j \in Jobs : pc[j] = "raised" => loc[j].site /= "transcribe_segment"

\* The text of the i-th labeled segment of a run: empty when a call of the
\* try block failed for that turn.
CaughtAt(j, i) ==
    \E f \in loc[j].faults : f.i = i /\ f.call = "recognize"

\* C5: the result of a completed run has one segment per turn diarize
\* returned, in the same order, each with its turn's speaker, start and end and
\* with the text transcribe_segment returned for that turn's time range.
C5_OneSegmentPerTurn ==
    \A j \in Jobs :
        pc[j] = "returned" =>
            LET turns == Uploaded(j).turns
                segs  == result[j].segments
            IN  /\ loc[j].segments = SegmentsOf(turns)
                /\ Len(segs) = Len(turns)
                /\ \A i \in DOMAIN turns :
                     /\ segs[i].speaker = turns[i].speaker
                     /\ segs[i].start = turns[i].start
                     /\ segs[i].end = turns[i].end
                     /\ segs[i].text = IF CaughtAt(j, i) THEN <<>>
                                                         ELSE TextOf(j, turns[i])

\* A run of two different turns completed, each segment with its words.
C5_Witness ==
    \E j \in Jobs :
        /\ pc[j] = "returned"
        /\ Len(result[j].segments) = 2
        /\ result[j].segments[1].speaker /= result[j].segments[2].speaker
        /\ result[j].segments[1].text /= result[j].segments[2].text

\* C6: the segments of a result are sorted by start time, ascending, for every
\* sequence of turns the diarization yields.
C6_SortedByStart ==
    \A j \in Jobs :
        pc[j] = "returned" =>
            \A a, b \in DOMAIN result[j].segments :
                a < b => result[j].segments[a].start <= result[j].segments[b].start

\* A result of two segments that start at different times.
C6_Witness ==
    \E j \in Jobs :
        /\ pc[j] = "returned"
        /\ Len(result[j].segments) = 2
        /\ result[j].segments[1].start < result[j].segments[2].start

\* The normalized artifacts on disk: the files that are neither an uploaded
\* source nor the sub-clip of a job.
Normalized ==
    DOMAIN fs \ ({FilePath(upl[r].filename) : r \in Reqs}
                    \cup {loc[j].temp_path : j \in Jobs})

\* C7: the second of two convert_to_wav calls on the same source (diarize's,
\* then transcribe_segment's) returns the same path as the first without
\* decoding again, and there is at most one normalized artifact for the source.
C7_ConvertIdempotent ==
    /\ [][\A j \in Jobs :
            pc[j] = "transcribe_segment" /\ pc'[j] /= pc[j]
              => /\ pc'[j] = "from_wav"
                 /\ loc'[j].wav_path = loc[j].wav_path
                 /\ fs' = fs]_vars
    /\ [](Cardinality(Normalized) <= 1)

\* transcribe_segment's call of convert_to_wav has returned, after diarize's.
C7_Witness ==
    \E j \in Jobs :
        /\ pc[j] = "from_wav"
        /\ loc[j].site = "transcribe_segment"
        /\ Exists(loc[j].wav_path) /\ fs[loc[j].wav_path].complete

\* The calls of diarize: the normalization of the source and the diarization.
DiarizeCalls == {"from_file", "export", "export_write", "pipeline"}

FailedInDiarize(j) ==
    /\ loc[j].site = "diarize"
    /\ \E f \in loc[j].faults : f.call \in DiarizeCalls

\* C11: a failure of the normalization or of the diarization is fatal: the
\* exception leaves process, which transcribes no segment and produces no result.
C11_DiarizeFailureFatal ==
    \A j \in Jobs :
        FailedInDiarize(j) =>
            /\ pc[j] = "raised"
            /\ result[j].kind = "exception"
            /\ result[j].segments = <<>>
            /\ loc[j].labeled_segments = <<>>
            /\ loc[j].temp_path = <<>>
            /\ Line("transcribing", <<>>) \notin log

\* The diarization of a recording with turns failed.
C11_Witness ==
    \E j \in Jobs :
        /\ pc[j] = "raised"
        /\ Uploaded(j).turns /= <<>>
        /\ \E f \in loc[j].faults : f.call = "pipeline"

\* C12: num_speakers is the number of distinct speaker labels among the segments
\* of the result, 0 when there is no turn, whatever the texts.
C12_NumSpeakersDistinct ==
    \A j \in Jobs :
        pc[j] = "returned" =>
            result[j].num_speakers =
                Cardinality({result[j].segments[k].speaker :
                                k \in DOMAIN result[j].segments})

\* A result of two turns of the same speaker, one of them without text.
C12_Witness ==
    \E j \in Jobs :
        /\ pc[j] = "returned"
        /\ Len(result[j].segments) = 2
        /\ result[j].segments[1].speaker = result[j].segments[2].speaker
        /\ result[j].segments[1].text = <<>>
        /\ result[j].segments[2].text /= <<>>
        /\ result[j].num_speakers = 1

\* C13: an upload whose filename does not end with .m4a is answered with a 4xx
\* client error, with no file written and no job submitted.
C13_RejectedWithClientError ==
    \A r \in Reqs :
        (~EndsWithM4a(upl[r].filename) /\ hpc[r] = "responded") =>
            /\ resp[r] \in 400..499
            /\ ~Exists(FilePath(upl[r].filename))
            /\ hjob[r] = 0

\* Job k is writing the normalized artifact at path: it has opened it and has
\* not written it yet.
Exporting(k, path) == pc[k] = "export_write" /\ loc[k].wav_path = path

\* C14: when two jobs run for the same source, no job reads (for the diarization
\* or to cut a sub-clip) a normalized artifact that another job is still writing.
C14_NoReadOfArtifactBeingWritten ==
    [][\A j \in Jobs :
         (pc[j] \in {"pipeline", "from_wav"} /\ pc'[j] /= pc[j]) =>
             /\ Exists(loc[j].wav_path)
             /\ fs[loc[j].wav_path].complete
             /\ ~\E k \in Jobs \ {j} : Exporting(k, loc[j].wav_path)]_vars

\* C15: when two jobs run for the same source, no job deletes or overwrites the
\* sub-clip another job is using, and the text of each segment of a job in which
\* no call failed is the text it has when the job runs alone.
C15_TempFilesIsolated ==
    /\ [][\A k \in Jobs :
            (/\ UsingTemp(k)
             /\ Exists(loc[k].temp_path)
             /\ pc'[k] = pc[k]
             /\ loc'[k] = loc[k]) =>
                /\ loc[k].temp_path \in DOMAIN fs'
                /\ fs'[loc[k].temp_path] = fs[loc[k].temp_path]]_vars
    /\ [](\A j \in Jobs :
            (pc[j] = "returned" /\ loc[j].faults = {}) =>
                \A i \in DOMAIN result[j].segments :
                    result[j].segments[i].text = TextOf(j, Uploaded(j).turns[i]))

\* C16: the source file a job decodes is fully written when the job reads it, a
\* second upload of the same filename while the job is queued or running included.
C16_SourceFullyWritten ==
    [][\A j \in Jobs :
         (pc[j] = "from_file" /\ pc'[j] /= pc[j]) =>
             /\ Exists(jpath[j])
             /\ fs[jpath[j]].complete]_vars

\* The lines that report a failure.
FailureLines ==
    {l \in log : l.event \in {"upload failed", "segment transcription failed"}}

\* C17: for every job that a fatal error has aborted, a line that names the path
\* of its file and reports the failure has been printed.
C17_FailureLogged ==
    \A j \in Jobs :
        pc[j] = "raised" => \E l \in FailureLines : l.file = jpath[j]

\* The states of a job, from the state of its future and what the future holds.
JobState(j) ==
    CASE future[j] = "none"     -> "None"
      [] future[j] = "PENDING"  -> "Queued"
      [] future[j] = "RUNNING"  -> "Running"
      [] future[j] = "FINISHED" ->
            IF result[j].kind = "result" THEN "Completed" ELSE "Failed"

Terminal == {"Completed", "Failed"}

\* C18: every submitted job eventually leaves the queue, runs and reaches one
\* terminal state (from some point on no job is queued or running, and a
\* terminal state is never left); its state moves only Queued -> Running ->
\* Completed or Failed; a job is never cancelled, retried or run twice.
C18_JobLifecycle ==
    /\ <>[](\A j \in Jobs : JobState(j) \in {"None"} \cup Terminal)
    /\ [][\A j \in Jobs :
            /\ JobState(j)' /= JobState(j) =>
                  \/ JobState(j) = "None" /\ JobState(j)' = "Queued"
                  \/ JobState(j) = "Queued" /\ JobState(j)' = "Running"
                  \/ JobState(j) = "Running" /\ JobState(j)' \in Terminal
            /\ JobState(j) \in Terminal => result'[j] = result[j]]_vars
    /\ [](\A j \in Jobs :
            /\ JobState(j) = "Queued" <=>
                  Cardinality({k \in DOMAIN queue : queue[k] = j}) = 1
            /\ JobState(j) /= "Queued" => ~\E k \in DOMAIN queue : queue[k] = j
            /\ JobState(j) \in Terminal <=> result[j].kind \in {"result", "exception"})

\* Every upload was accepted and every job has ended, some completed and some
\* failed.
C18_Witness ==
    /\ \A j \in Jobs : JobState(j) \in Terminal
    /\ \E j \in Jobs : JobState(j) = "Completed"
    /\ \E j \in Jobs : JobState(j) = "Failed"

\* The job of request r has failed.
JobFailed(r) == hjob[r] /= 0 /\ result[hjob[r]].kind = "exception"

\* C19, as stated: when the job of an accepted upload fails, the handler has
\* already returned success.
C19_RespondedBeforeFailure ==
    \A r \in Reqs : JobFailed(r) => resp[r] = 200

\* C19, amended: a processing failure is never returned to the caller: the
\* response to an accepted upload, once produced, is success whatever the
\* outcome of its job, a failure that came before the response included.
C19_FailureNeverReturned ==
    \A r \in Reqs :
        hjob[r] /= 0 => resp[r] = IF hpc[r] = "responded" THEN 200 ELSE 0

\* The job of an upload failed while another accepted upload, whose job failed
\* too, had not been answered yet; the first was answered with success.
C19_Witness ==
    \E r, q \in Reqs :
        /\ JobFailed(r) /\ resp[r] = 200
        /\ JobFailed(q) /\ hpc[q] = "submitted"

====
